---- MODULE Spec2Model ----
(***************************************************************************)
(* Model of the mbed flash-map backend of mcuboot                          *)
(* (boot/mbed/src/flash_map_backend.cpp): the three slots' descriptors and *)
(* open counters, the bound block devices, and the flash_area_* handlers.  *)
(*                                                                         *)
(* The block devices (mbed::BlockDevice, FlashIAPBlockDevice) are the      *)
(* environment: the file only calls them.  Their behaviour is modelled     *)
(* from the interface the handlers use; what a call returns is an input.   *)
(***************************************************************************)
EXTENDS Integers, Sequences, FiniteSets, TLC

VARIABLES
    cfg,            \* build configuration: the macros of lines 18-77
    lazySize,       \* per device: size() reports 0 until init() succeeded
    open_count,     \* static uint8_t open_count[3]
    flash_areas,    \* static struct flash_area flash_areas[3]
    bd_initialized, \* per bound device: init() succeeded, no deinit() since
    oob_count,      \* the bytes open_count[id] names for id >= 3
    holders,        \* ghost: opens minus closes of each id
    last,           \* ghost: the last call, its result and its device calls
    scen,           \* ghost: the nested open/close run of one slot
    dev,            \* the block device an I/O or sector call works on
    io              \* ghost: the I/O or sector call made and what it gave

lifeVars == <<cfg, lazySize, open_count, flash_areas, bd_initialized, oob_count,
              holders, last>>

vars == <<cfg, lazySize, open_count, flash_areas, bd_initialized, oob_count,
          holders, last, scen, dev, io>>

----------------------------------------------------------------------------
\* Slot identifiers: the indices of flash_map_bd, flash_areas, open_count.
PRIMARY_ID == 0
SECONDARY_ID == 1
SCRATCH_ID == 2

SlotIds == {PRIMARY_ID, SECONDARY_ID, SCRATCH_ID}

\* uint8_t id: every other value of the parameter; two of them are modelled.
InvalidIds == {3, 255}

\* open_count is uint8_t: arithmetic on it is modulo 2^8.
UINT8_MOD == 256

\* Bounds of the model.
MaxNest == 2
MaxHeld == 3
DeepNest == 257

\* What init() of a device can return: 0, or the device's own error code
\* (mbed's BD_ERROR_DEVICE_ERROR = -4001, BD_ERROR_DEVICE_ERROR - 1).
InitCodes == {0, -4001, -4002}

\* Content of a byte outside the arrays, which nothing in this file sets.
GarbageBytes == {0, 255}

----------------------------------------------------------------------------
\* Build configurations.  0x08008000 = 134250496, 0x10000 = 65536,
\* 0x1000 = 4096, 0x400 = 1024.
Configs ==
    { [bootloader |-> TRUE,  POST_APPLICATION_ADDR |-> a, POST_APPLICATION_SIZE |-> s,
       APPLICATION_ADDR |-> 0, APPLICATION_SIZE |-> 0,
       HEADER_SIZE |-> h, SCRATCH_SIZE |-> x]
        : a \in {134250496}, s \in {69632}, h \in {1024}, x \in {4096, 8192} }
    \cup
    { [bootloader |-> FALSE, POST_APPLICATION_ADDR |-> 0, POST_APPLICATION_SIZE |-> 0,
       APPLICATION_ADDR |-> a, APPLICATION_SIZE |-> s,
       HEADER_SIZE |-> h, SCRATCH_SIZE |-> x]
        : a \in {134251520}, s \in {64512}, h \in {1024, 4096}, x \in {4096} }

PRIMARY_SLOT_START_ADDR ==
    IF cfg.bootloader THEN cfg.POST_APPLICATION_ADDR
                      ELSE cfg.APPLICATION_ADDR - cfg.HEADER_SIZE

PRIMARY_SLOT_SIZE ==
    IF cfg.bootloader THEN cfg.POST_APPLICATION_SIZE - cfg.SCRATCH_SIZE
                      ELSE cfg.APPLICATION_SIZE + cfg.HEADER_SIZE

SCRATCH_START_ADDR ==
    IF cfg.bootloader THEN PRIMARY_SLOT_START_ADDR + PRIMARY_SLOT_SIZE
                      ELSE cfg.APPLICATION_ADDR + cfg.APPLICATION_SIZE

\* Size of the secondary device, which the application supplies.
SecondaryDeviceSize == 131072

\* The size each device was constructed with (lines 92-98).
BdConfiguredSize(id) ==
    CASE id = PRIMARY_ID   -> PRIMARY_SLOT_SIZE
      [] id = SECONDARY_ID -> SecondaryDeviceSize
      [] id = SCRATCH_ID   -> cfg.SCRATCH_SIZE

\* bd->size(): FlashIAPBlockDevice reports 0 until init() has succeeded, and
\* other devices learn their size in init(); a device that knows it
\* statically reports it at once.  The values stay below 2^31, where the
\* (uint32_t) cast of line 147 changes nothing.
BdSize(id) ==
    IF bd_initialized[id] \/ ~lazySize[id] THEN BdConfiguredSize(id) ELSE 0

\* bd->init() with the code o the device would return now: an initialized
\* device accepts a repeated init().
BdInitRet(id, o) == IF bd_initialized[id] THEN 0 ELSE o

----------------------------------------------------------------------------
ZeroArea == [fa_id |-> 0, fa_device_id |-> 0, fa_off |-> 0, fa_size |-> 0]

NoCall == [op |-> "none", id |-> 0, ret |-> 0, calls |-> <<>>,
           initRet |-> 0, oob |-> FALSE]

NoScen == [slot |-> 0, opens |-> 0, closes |-> 0, inits |-> 0, deinits |-> 0,
           earlyDeinit |-> FALSE]

NoDev == [kind |-> "none"]

NoIo == [op |-> "none"]

InitCore ==
    /\ cfg \in Configs
    /\ lazySize \in {[i \in SlotIds |-> b] : b \in BOOLEAN}
    /\ open_count = [i \in SlotIds |-> 0]
    /\ flash_areas = [i \in SlotIds |-> ZeroArea]
    /\ bd_initialized = [i \in SlotIds |-> FALSE]
    /\ oob_count \in {[i \in InvalidIds |-> g] : g \in GarbageBytes}
    /\ holders = [i \in SlotIds \cup InvalidIds |-> 0]
    /\ last = NoCall

\* Name of the call flash_map_bd[i]->init() in last.calls.
InitCallName(i) == <<"init0", "init1", "init2">>[i + 1]

\* Mutant: the loop stops at the first device whose init() fails.
InitLoopContinues_StopOnFailure(i, acc) ==
    i < 3 /\ \A k \in 1..Len(acc.rets) : acc.rets[k] = 0

\* The loop condition of line 110; nothing the devices returned enters it.
InitLoopContinues(i, acc) == i < 3

\* The loop of lines 110-112 from index i on: acc holds the devices'
\* states, the calls made and what they returned (which the code drops).
RECURSIVE InitLoop(_, _, _)
InitLoop(i, outs, acc) ==
    IF InitLoopContinues(i, acc)
      THEN InitLoop(i + 1, outs,
                    [inited |-> [acc.inited EXCEPT ![i] = @ \/ BdInitRet(i, outs[i]) = 0],
                     calls |-> Append(acc.calls, InitCallName(i)),
                     rets |-> Append(acc.rets, BdInitRet(i, outs[i]))])
      ELSE acc

\* int initialize_flash_areas(void): init() on each device in turn, the
\* results dropped; outs[i] is what device i would return.
initialize_flash_areas(outs) ==
    LET r == InitLoop(0, outs, [inited |-> bd_initialized, calls |-> <<>>,
                                rets |-> <<>>])
    IN  /\ bd_initialized' = r.inited
        /\ last' = [NoCall EXCEPT !.op = "initialize_flash_areas", !.ret = 0,
                                  !.calls = r.calls]
        /\ UNCHANGED <<cfg, lazySize, open_count, flash_areas, oob_count, holders>>

\* The fa_off the switch of lines 133-145 selects.
AreaOffset(id) ==
    CASE id = PRIMARY_ID   -> PRIMARY_SLOT_START_ADDR
      [] id = SECONDARY_ID -> 0
      [] id = SCRATCH_ID   -> SCRATCH_START_ADDR

\* if(open_count[id]++): whether the counter read was non-zero.
AlreadyOpen(c) == c # 0

\* open_count[id]++ on the uint8_t counter.
CountAfterOpen(c) == (c + 1) % UINT8_MOD

\* int flash_area_open(uint8_t id, ...) for one of the three slots; o is
\* the code the device's init() would return now.
flash_area_open(id, o) ==
    /\ id \in SlotIds
    /\ open_count' = [open_count EXCEPT ![id] = CountAfterOpen(@)]
    /\ holders' = [holders EXCEPT ![id] = @ + 1]
    /\ IF AlreadyOpen(open_count[id])
         THEN /\ last' = [NoCall EXCEPT !.op = "open", !.id = id, !.ret = 0]
              /\ UNCHANGED <<flash_areas, bd_initialized>>
         ELSE /\ flash_areas' = [flash_areas EXCEPT ![id] =
                     [fa_id |-> id, fa_device_id |-> 0,
                      fa_off |-> AreaOffset(id), fa_size |-> BdSize(id)]]
              /\ bd_initialized' = [bd_initialized EXCEPT ![id] =
                     @ \/ BdInitRet(id, o) = 0]
              /\ last' = [NoCall EXCEPT !.op = "open", !.id = id,
                                       !.ret = BdInitRet(id, o),
                                       !.initRet = BdInitRet(id, o),
                                       !.calls = <<"size", "init">>]
    /\ UNCHANGED <<cfg, lazySize, oob_count>>

\* flash_area_open with an id that names no slot: open_count[id] and
\* flash_areas[id] lie outside the arrays.  The byte the counter expression
\* reads is whatever lies there; it is incremented like a counter.  When it
\* was non-zero the call returns 0 at line 122; otherwise fa_id and
\* fa_device_id are stored outside flash_areas and the switch returns -1.
\* (A layout in which these cells overlap the arrays themselves is a further
\* outcome, not modelled.)
flash_area_open_invalid(id) ==
    /\ id \in InvalidIds
    /\ oob_count' = [oob_count EXCEPT ![id] = CountAfterOpen(@)]
    /\ holders' = [holders EXCEPT ![id] = @ + 1]
    /\ last' = [NoCall EXCEPT !.op = "open", !.id = id,
                              !.ret = IF AlreadyOpen(oob_count[id]) THEN 0 ELSE -1, !.oob = TRUE]
    /\ UNCHANGED <<cfg, lazySize, open_count, flash_areas, bd_initialized>>

\* --open_count[fap->fa_id] on the uint8_t counter.
CountAfterClose(c) == (c + UINT8_MOD - 1) % UINT8_MOD

\* Mutant: the counter and device are chosen by fap->fa_device_id.
CloseIndex_DeviceId(fap) == fap.fa_device_id

\* The index flash_area_close uses for open_count and flash_map_bd.
CloseIndex(fap) == fap.fa_id

\* void flash_area_close(fap), fap the descriptor of slot id as an earlier
\* open returned it.
flash_area_close(id) ==
    LET fa_id == CloseIndex(flash_areas[id])
        c == CountAfterClose(open_count[fa_id])
    IN  /\ id \in SlotIds
        /\ open_count' = [open_count EXCEPT ![fa_id] = c]
        /\ holders' = [holders EXCEPT ![id] = @ - 1]
        /\ IF c = 0
             THEN /\ bd_initialized' = [bd_initialized EXCEPT ![fa_id] = FALSE]
                  /\ last' = [NoCall EXCEPT !.op = "close", !.id = id,
                                           !.calls = <<"deinit">>]
             ELSE /\ UNCHANGED bd_initialized
                  /\ last' = [NoCall EXCEPT !.op = "close", !.id = id]
        /\ UNCHANGED <<cfg, lazySize, flash_areas, oob_count>>

----------------------------------------------------------------------------
\* The lifecycle: any interleaving of the calls on the three slots, closes
\* paired with opens (closing a slot nobody holds is the caller's error).
Init ==
    /\ InitCore
    /\ scen = NoScen
    /\ dev = NoDev
    /\ io = NoIo

\* Opens not yet closed, over all ids.
Held == holders[PRIMARY_ID] + holders[SECONDARY_ID] + holders[SCRATCH_ID]
        + holders[3] + holders[255]

InitAllStep ==
    /\ \E outs \in [SlotIds -> InitCodes] : initialize_flash_areas(outs)
    /\ UNCHANGED <<scen, dev, io>>

OpenStep ==
    /\ \E id \in SlotIds, o \in InitCodes :
          /\ holders[id] < MaxNest
          /\ Held < MaxHeld
          /\ flash_area_open(id, o)
    /\ UNCHANGED <<scen, dev, io>>

OpenInvalidStep ==
    /\ \E id \in InvalidIds :
          /\ holders[id] < MaxNest
          /\ Held < MaxHeld
          /\ flash_area_open_invalid(id)
    /\ UNCHANGED <<scen, dev, io>>

CloseStep ==
    /\ \E id \in SlotIds :
          /\ holders[id] > 0
          /\ flash_area_close(id)
    /\ UNCHANGED <<scen, dev, io>>

Next == InitAllStep \/ OpenStep \/ OpenInvalidStep \/ CloseStep

Spec == Init /\ [][Next]_vars

----------------------------------------------------------------------------
\* One slot, opened N times in a row and then closed N times, from a
\* counter of zero; scen counts the calls and the init()/deinit() they made.
InitDeep ==
    /\ InitCore
    /\ cfg.bootloader /\ cfg.SCRATCH_SIZE = 4096
    /\ ~lazySize[PRIMARY_ID]
    /\ oob_count[3] = 0
    /\ scen \in {[NoScen EXCEPT !.slot = i] : i \in SlotIds}
    /\ dev = NoDev
    /\ io = NoIo

\* Whether the last call called the device's f.
Called(l, f) == \E k \in 1..Len(l.calls) : l.calls[k] = f

DeepOpenStep ==
    /\ scen.closes = 0
    /\ scen.opens < DeepNest
    /\ \E o \in InitCodes : flash_area_open(scen.slot, o)
    /\ scen' = [scen EXCEPT !.opens = @ + 1,
                            !.inits = @ + (IF Called(last', "init") THEN 1 ELSE 0)]
    /\ UNCHANGED <<dev, io>>

DeepCloseStep ==
    /\ scen.closes < scen.opens
    /\ flash_area_close(scen.slot)
    /\ scen' = [scen EXCEPT !.closes = @ + 1,
                            !.deinits = @ + (IF Called(last', "deinit") THEN 1 ELSE 0),
                            !.earlyDeinit = @ \/ (Called(last', "deinit")
                                                   /\ scen.closes + 1 < scen.opens)]
    /\ UNCHANGED <<dev, io>>

NextDeep == DeepOpenStep \/ DeepCloseStep

SpecDeep == InitDeep /\ [][NextDeep]_vars

----------------------------------------------------------------------------
\* I/O on one block device: dev.id is the slot it is bound to, dev.mem its
\* content (dev.mem[k] is the byte at device offset k - 1).
Bytes == {0, 255}

\* Bounds of the I/O model.
IoDevSize == 4
MaxLen == 5

\* Minimum read granularities of the modelled devices.
ReadSizes == {1, 2, 4}

\* What read() of a device can return: 0 or the device's own error code.
IoCodes == {0, -4001}

\* A device programs in units of its read size and erases in units of two
\* bytes or of its read size, whichever is larger.
IoDevices ==
    { [kind |-> "io", id |-> i, read_size |-> r, size |-> IoDevSize,
       erase_value |-> e, mem |-> m, program_size |-> r,
       b |-> 0, e1 |-> IF r = 1 THEN 2 ELSE r, e2 |-> IF r = 1 THEN 2 ELSE r]
        : i \in {SECONDARY_ID}, r \in ReadSizes, e \in Bytes,
          m \in [1..IoDevSize -> Bytes] }

\* bd->is_valid_read(off, len) of mbed::BlockDevice: both multiples of the
\* read size, and the range inside the device.
is_valid_read(d, off, len) ==
    /\ off % d.read_size = 0
    /\ len % d.read_size = 0
    /\ off + len <= d.size

\* bd->read(buf, off, n): o is the code the hardware would give now.  A
\* device refuses a range that is not a valid read and then, as on a
\* hardware error, stores nothing.
BdRead(d, off, n, o) ==
    IF o # 0 THEN [ret |-> o, ok |-> FALSE, data |-> <<>>]
    ELSE IF ~is_valid_read(d, off, n)
           THEN [ret |-> -4001, ok |-> FALSE, data |-> <<>>]
           ELSE [ret |-> 0, ok |-> TRUE,
                 data |-> [k \in 1..n |-> d.mem[off + k]]]

\* new uint8_t[n](): n zero bytes.
ZeroBuf(n) == [k \in 1..n |-> 0]

\* How many bytes of the source memcpy(dst, buf, len) reads.
CopyLen(len, n) == len

\* memcpy(dst, buf, len) from a buffer of Len(buf) bytes: the bytes past the
\* buffer's end are whatever follows it on the heap (beyond[k]).
Memcpy(buf, len, beyond) ==
    [k \in 1..CopyLen(len, Len(buf)) |->
        IF k <= Len(buf) THEN buf[k] ELSE beyond[k]]

\* int flash_area_read(fap, off, dst, len) as a value: dst0 is the caller's
\* buffer before the call, o what the device's read would return, beyond
\* the heap past the temporary buffer.
flash_area_read(d, off, dst0, len, o, beyond) ==
    IF ~is_valid_read(d, off, len)
      THEN LET r == BdRead(d, off, d.read_size, o)
               buf == IF r.ok THEN r.data ELSE ZeroBuf(d.read_size)
           IN  [path |-> "unaligned", ret |-> r.ret, devRets |-> <<r.ret>>,
                buf |-> buf,
                dst |-> Memcpy(buf, len, beyond),
                devReads |-> <<[off |-> off, len |-> d.read_size]>>,
                oob |-> CopyLen(len, d.read_size) > d.read_size]
      ELSE LET r == BdRead(d, off, len, o)
           IN  [path |-> "aligned", ret |-> r.ret, devRets |-> <<r.ret>>,
                buf |-> <<>>,
                dst |-> IF r.ok THEN r.data ELSE dst0,
                devReads |-> <<[off |-> off, len |-> len]>>,
                oob |-> FALSE]

\* bd->program(src, off, len): o is the code the hardware would give now.
\* A device refuses a range that is no multiple of its program size or
\* leaves the device, and then stores nothing.
BdProgram(d, off, src, o) ==
    IF o # 0 THEN [ret |-> o, mem |-> d.mem]
    ELSE IF ~(/\ off % d.program_size = 0
              /\ Len(src) % d.program_size = 0
              /\ off + Len(src) <= d.size)
           THEN [ret |-> -4001, mem |-> d.mem]
           ELSE [ret |-> 0,
                 mem |-> [k \in 1..d.size |->
                            IF off < k /\ k <= off + Len(src)
                              THEN src[k - off] ELSE d.mem[k]]]

\* bd->erase(off, len): the range, whole erase units inside the device,
\* takes the erase value.
BdErase(d, off, len, o) ==
    IF o # 0 THEN [ret |-> o, mem |-> d.mem]
    ELSE IF ~(/\ off % d.e1 = 0
              /\ len % d.e1 = 0
              /\ off + len <= d.size)
           THEN [ret |-> -4001, mem |-> d.mem]
           ELSE [ret |-> 0,
                 mem |-> [k \in 1..d.size |->
                            IF off < k /\ k <= off + len
                              THEN d.erase_value ELSE d.mem[k]]]

\* Mutant: every device failure reported as -1.
flash_area_write_Minus1(d, off, src, o) ==
    LET r == BdProgram(d, off, src, o)
    IN  [ret |-> IF r.ret # 0 THEN -1 ELSE 0, devRets |-> <<r.ret>>,
         mem |-> r.mem]

\* int flash_area_write(fap, off, src, len) as a value: src holds the len
\* bytes.
flash_area_write(d, off, src, o) ==
    LET r == BdProgram(d, off, src, o)
    IN  [ret |-> r.ret, devRets |-> <<r.ret>>, mem |-> r.mem]

\* int flash_area_erase(fap, off, len) as a value.
flash_area_erase(d, off, len, o) ==
    LET r == BdErase(d, off, len, o)
    IN  [ret |-> r.ret, devRets |-> <<r.ret>>, mem |-> r.mem]

\* uint8_t flash_area_align(fap): the device's program size as a byte.
flash_area_align(d) == d.program_size % UINT8_MOD

\* Mutant: the erased value taken to be 0xFF on every device.
flash_area_erased_val_FF(d) == 255

\* uint8_t flash_area_erased_val(fap): the device's erase value as a byte.
flash_area_erased_val(d) == d.erase_value % UINT8_MOD

\* Whether the byte read differs from the erased value (line 210).
NotErased(val, erased_value) == val # erased_value

\* The loop of lines 208-213 from index i (0-based) on.
RECURSIVE EmptyScan(_, _, _, _)
EmptyScan(dst, i, len, erased_value) ==
    IF ~(i < len) THEN 1
    ELSE IF NotErased(dst[i + 1], erased_value) THEN 0
    ELSE EmptyScan(dst, i + 1, len, erased_value)

\* Mutant: a failed read step reported with the device's own code.
flash_area_read_is_empty_Propagate(d, off, dst0, len, o, beyond) ==
    LET r == flash_area_read(d, off, dst0, len, o, beyond)
    IN  [read |-> r,
         ret |-> IF r.ret # 0 THEN r.ret
                 ELSE EmptyScan(r.dst, 0, len, flash_area_erased_val(d))]

\* int flash_area_read_is_empty(fap, off, dst, len) as a value.
flash_area_read_is_empty(d, off, dst0, len, o, beyond) ==
    LET r == flash_area_read(d, off, dst0, len, o, beyond)
    IN  [read |-> r,
         ret |-> IF r.ret # 0 THEN -1
                 ELSE EmptyScan(r.dst, 0, len, flash_area_erased_val(d))]

\* The state in which slot id, and no other, has been opened once, its
\* device initializing at once.
SlotOpened(id) ==
    /\ cfg \in {c \in Configs : c.bootloader /\ c.SCRATCH_SIZE = 4096}
    /\ lazySize = [i \in SlotIds |-> FALSE]
    /\ open_count = [i \in SlotIds |-> IF i = id THEN 1 ELSE 0]
    /\ flash_areas = [i \in SlotIds |->
          IF i = id THEN [fa_id |-> id, fa_device_id |-> 0,
                          fa_off |-> AreaOffset(id), fa_size |-> BdConfiguredSize(id)]
                    ELSE ZeroArea]
    /\ bd_initialized = [i \in SlotIds |-> i = id]
    /\ oob_count = [i \in InvalidIds |-> 0]
    /\ holders = [i \in SlotIds \cup InvalidIds |-> IF i = id THEN 1 ELSE 0]
    /\ last = NoCall

InitIO ==
    /\ dev \in IoDevices
    /\ SlotOpened(dev.id)
    /\ scen = NoScen
    /\ io = NoIo

\* The caller's buffer before a call, and the heap past the temporary one.
CallerBufs(len) == {[k \in 1..len |-> b] : b \in Bytes}

Beyonds == [1..MaxLen -> Bytes]

ReadStep ==
    /\ io = NoIo
    /\ \E off \in 0..IoDevSize, len \in 0..MaxLen, o \in IoCodes, beyond \in Beyonds :
        \E dst0 \in CallerBufs(len) :
          LET r == flash_area_read(dev, off, dst0, len, o, beyond)
          IN  io' = [op |-> "read", off |-> off, len |-> len, dst0 |-> dst0,
                     o |-> o, read |-> r, devRets |-> r.devRets, ret |-> r.ret]
    /\ UNCHANGED <<lifeVars, scen, dev>>

ReadIsEmptyStep ==
    /\ io = NoIo
    /\ \E off \in 0..IoDevSize, len \in 0..MaxLen, o \in IoCodes, beyond \in Beyonds :
        \E dst0 \in CallerBufs(len) :
          LET e == flash_area_read_is_empty(dev, off, dst0, len, o, beyond)
          IN  io' = [op |-> "read_is_empty", off |-> off, len |-> len,
                     dst0 |-> dst0, o |-> o, read |-> e.read,
                     devRets |-> e.read.devRets, ret |-> e.ret]
    /\ UNCHANGED <<lifeVars, scen, dev>>

WriteStep ==
    /\ io = NoIo
    /\ \E off \in 0..IoDevSize, len \in 0..MaxLen, o \in IoCodes :
        \E src \in CallerBufs(len) :
          LET r == flash_area_write(dev, off, src, o)
          IN  /\ io' = [op |-> "write", off |-> off, len |-> len, o |-> o,
                        devRets |-> r.devRets, ret |-> r.ret]
              /\ dev' = [dev EXCEPT !.mem = r.mem]
    /\ UNCHANGED <<lifeVars, scen>>

EraseStep ==
    /\ io = NoIo
    /\ \E off \in 0..IoDevSize, len \in 0..MaxLen, o \in IoCodes :
          LET r == flash_area_erase(dev, off, len, o)
          IN  /\ io' = [op |-> "erase", off |-> off, len |-> len, o |-> o,
                        devRets |-> r.devRets, ret |-> r.ret]
              /\ dev' = [dev EXCEPT !.mem = r.mem]
    /\ UNCHANGED <<lifeVars, scen>>

AlignStep ==
    /\ io = NoIo
    /\ io' = [op |-> "align", ret |-> flash_area_align(dev)]
    /\ UNCHANGED <<lifeVars, scen, dev>>

ErasedValStep ==
    /\ io = NoIo
    /\ io' = [op |-> "erased_val", ret |-> flash_area_erased_val(dev)]
    /\ UNCHANGED <<lifeVars, scen, dev>>

\* The caller takes the result; the next call starts from the same device.
IoReturnStep ==
    /\ io # NoIo
    /\ io' = NoIo
    /\ UNCHANGED <<lifeVars, scen, dev>>


\* C4: a read the device's is_valid_read rejects delivers exactly len bytes,
\* the first len bytes of the one read_size-byte device read made at off,
\* and reads no byte outside the read_size-byte temporary buffer.
C4_UnalignedReadPrefix ==
    (io.op = "read" /\ io.read.path = "unaligned") =>
        /\ Len(io.read.dst) = io.len
        /\ io.read.devReads = <<[off |-> io.off, len |-> dev.read_size]>>
        /\ ~io.read.oob
        /\ \A k \in 1..io.len :
              k <= Len(io.read.buf) /\ io.read.dst[k] = io.read.buf[k]

\* C5: when its read step succeeds, flash_area_read_is_empty returns 1 if
\* every one of the len bytes delivered equals the device's erased value and
\* 0 otherwise, for every erased value and for len = 0.
C5_EmptyIffAllErased ==
    (io.op = "read_is_empty" /\ io.read.ret = 0) =>
        /\ Len(io.read.dst) = io.len
        /\ io.ret \in {0, 1}
        /\ io.ret = 1 <=>
              \A k \in 1..io.len : io.read.dst[k] = dev.erase_value

\* Reached: an emptiness check of a non-empty range on a device whose erased
\* value is not 0xFF, answered 1; and one answered 0.
C5_Witness ==
    /\ io.op = "read_is_empty" /\ io.read.ret = 0
    /\ io.len > 1 /\ io.ret = 1 /\ dev.erase_value = 0

\* C11: the status flash_area_read (either path), flash_area_write and
\* flash_area_erase return is the status of the one device call each makes:
\* one call, no retry, and a non-zero device code comes back unchanged.
C11_DeviceStatusReturned ==
    io.op \in {"read", "write", "erase"} =>
        /\ Len(io.devRets) = 1
        /\ io.ret = io.devRets[1]
        /\ io.o # 0 => io.ret = io.o

\* Reached: a write the hardware fails with -4001, reported as -4001.
C11_Witness ==
    io.op = "write" /\ io.o = -4001 /\ io.len > 0 /\ io.ret = -4001

\* C12: when its read step fails with a non-zero device code,
\* flash_area_read_is_empty returns exactly -1, whatever the buffer holds.
C12_ReadFailureIsMinusOne ==
    (io.op = "read_is_empty" /\ io.read.ret # 0) => io.ret = -1

\* Reached: the read step failed with the device's -4001 on a buffer whose
\* bytes all equal the erased value, and the call returned -1.
C12_Witness ==
    /\ io.op = "read_is_empty" /\ io.read.ret = -4001 /\ io.ret = -1
    /\ io.len > 0
    /\ \A k \in 1..Len(io.read.dst) : io.read.dst[k] = dev.erase_value

----------------------------------------------------------------------------
\* Sector enumeration on one block device.  The erase size a device reports
\* is e1 below offset b and e2 from b on; a block device's erase sizes are
\* multiples of its read size.
MBED_CONF_MCUBOOT_MAX_IMG_SECTORS == 4

\* Bound of the sector model: the largest small device.
MaxDevSize == 8

EraseSizes == {0, 1, 2, 4}

GeoDevices ==
    { d \in [kind : {"geo"}, id : {SECONDARY_ID}, read_size : {1, 2},
              size : 0..MaxDevSize, b : {0, 2, 3},
              e1 : EraseSizes, e2 : EraseSizes] :
        d.e1 % d.read_size = 0 /\ d.e2 % d.read_size = 0 }
    \cup
    \* erase unit 0x1000, total size 0x4000, and the same device one unit
    \* longer for each unit the sector maximum exceeds 4.
    { [kind |-> "geo", id |-> SECONDARY_ID, read_size |-> r,
       size |-> 4096 * n, b |-> 0, e1 |-> 4096, e2 |-> 4096]
        : r \in {1, 4096}, n \in 4..(MBED_CONF_MCUBOOT_MAX_IMG_SECTORS + 1) }

\* bd->get_erase_size(offset).
get_erase_size(d, offset) == IF offset < d.b THEN d.e1 ELSE d.e2

\* Mutant: the loop stops one record short of the maximum.
SectorLoopContinues_Short(d, offset, count) ==
    /\ is_valid_read(d, offset, d.read_size)
    /\ count + 1 < MBED_CONF_MCUBOOT_MAX_IMG_SECTORS

\* Mutant: the loop admits one record more than the maximum.
SectorLoopContinues_Over(d, offset, count) ==
    /\ is_valid_read(d, offset, d.read_size)
    /\ count <= MBED_CONF_MCUBOOT_MAX_IMG_SECTORS

\* The loop condition of lines 227-228.
SectorLoopContinues(d, offset, count) ==
    /\ is_valid_read(d, offset, d.read_size)
    /\ count < MBED_CONF_MCUBOOT_MAX_IMG_SECTORS

\* Mutant: offset = erase_size.
NextOffset_Assign(offset, erase_size) == erase_size

\* offset += erase_size (line 234).
NextOffset(offset, erase_size) == offset + erase_size

\* The loop of lines 227-236: sectors[*count] is the record appended.
RECURSIVE SectorLoop(_, _, _, _)
SectorLoop(d, offset, count, sectors) ==
    IF SectorLoopContinues(d, offset, count)
      THEN LET erase_size == get_erase_size(d, offset)
           IN  SectorLoop(d, NextOffset(offset, erase_size), count + 1,
                          Append(sectors, [fs_off |-> offset, fs_size |-> erase_size]))
      ELSE [returns |-> TRUE, ret |-> 0, count |-> count, sectors |-> sectors]

\* Mutant: *count = 0 left out, the count of the call before kept.
flash_area_get_sectors_NoReset(d) ==
    SectorLoop(d, 0, IF io.op = "get_sectors" THEN io.count ELSE 0, <<>>)

\* int flash_area_get_sectors(fa_id, count, sectors) on the device bound to
\* a slot, as a value.
flash_area_get_sectors(d) == SectorLoop(d, 0, 0, <<>>)

\* flash_area_get_sectors with an fa_id that names no slot: bd is read from
\* outside flash_map_bd and called through.  Either the pointer found there
\* is no device and the call faults, never returning, or it is one (a
\* neighbouring device pointer) and that device is enumerated.
GetSectorsInvalidOutcomes(d) ==
    { [returns |-> FALSE, ret |-> 0, count |-> 0, sectors |-> <<>>],
      flash_area_get_sectors(d) }

InitSectors ==
    /\ dev \in GeoDevices
    /\ SlotOpened(dev.id)
    /\ scen = NoScen
    /\ io = NoIo

\* A call on the device's slot, the first or the one right after it on the
\* same device; io.prev holds what the call before gave.
GetSectorsStep ==
    /\ \/ io = NoIo
       \/ io.op = "get_sectors" /\ io.id \in SlotIds /\ io.prev = <<>>
    /\ LET r == flash_area_get_sectors(dev)
       IN  io' = [op |-> "get_sectors", id |-> dev.id,
                  returns |-> r.returns, ret |-> r.ret,
                  count |-> r.count, sectors |-> r.sectors,
                  prev |-> IF io = NoIo THEN <<>> ELSE <<io.sectors>>]
    /\ UNCHANGED <<lifeVars, scen, dev>>

GetSectorsInvalidStep ==
    /\ io = NoIo
    /\ \E id \in InvalidIds : \E r \in GetSectorsInvalidOutcomes(dev) :
          io' = [op |-> "get_sectors", id |-> id,
                 returns |-> r.returns, ret |-> r.ret,
                 count |-> r.count, sectors |-> r.sectors, prev |-> <<>>]
    /\ UNCHANGED <<lifeVars, scen, dev>>

NextSectors == GetSectorsStep \/ GetSectorsInvalidStep \/ IoReturnStep

SpecSectors == InitSectors /\ [][NextSectors]_vars

\* Every call that works on an open slot's device, on one device.
NextIO == ReadStep \/ ReadIsEmptyStep \/ WriteStep \/ EraseStep
          \/ AlignStep \/ ErasedValStep \/ GetSectorsStep \/ IoReturnStep

SpecIO == InitIO /\ [][NextIO]_vars

\* The records of a valid-slot enumeration just made.
Enumerated == io.op = "get_sectors" /\ io.id \in SlotIds

\* C6 as claimed: for every device, any erase-size function, the sequence
\* starts at offset 0, has strictly increasing offsets, is contiguous and
\* has at most MBED_CONF_MCUBOOT_MAX_IMG_SECTORS records.
C6_SectorsIncreasingContiguous ==
    Enumerated =>
        /\ io.count = Len(io.sectors)
        /\ io.count <= MBED_CONF_MCUBOOT_MAX_IMG_SECTORS
        /\ io.count > 0 => io.sectors[1].fs_off = 0
        /\ \A k \in 1..(io.count - 1) :
              /\ io.sectors[k + 1].fs_off > io.sectors[k].fs_off
              /\ io.sectors[k + 1].fs_off = io.sectors[k].fs_off + io.sectors[k].fs_size

\* C6 amended: for every device the sequence starts at offset 0, is
\* contiguous and has at most the maximum of records; its offsets are
\* strictly increasing when the device reports no erase size of 0 at an
\* enumerated offset, and never decrease otherwise.
C6_SectorsContiguous ==
    Enumerated =>
        /\ io.count = Len(io.sectors)
        /\ io.count <= MBED_CONF_MCUBOOT_MAX_IMG_SECTORS
        /\ io.count > 0 => io.sectors[1].fs_off = 0
        /\ \A k \in 1..(io.count - 1) :
              /\ io.sectors[k + 1].fs_off = io.sectors[k].fs_off + io.sectors[k].fs_size
              /\ io.sectors[k + 1].fs_off >= io.sectors[k].fs_off
              /\ io.sectors[k].fs_size > 0 =>
                    io.sectors[k + 1].fs_off > io.sectors[k].fs_off

\* Reached: three sectors of unequal positive sizes enumerated in order.
C6_Witness ==
    /\ Enumerated /\ io.count >= 3
    /\ io.sectors[1].fs_size > 0 /\ io.sectors[3].fs_size > io.sectors[1].fs_size

\* C7: a device of uniform erase unit E > 0 and size S a multiple of E, with
\* S/E at most the sector maximum, enumerates exactly the S/E records
\* (k*E, E), k = 0..S/E-1, and none beyond the device's end.
C7_UniformDeviceSectors ==
    (/\ Enumerated
     /\ dev.e1 = dev.e2 /\ dev.e1 > 0
     /\ dev.size % dev.e1 = 0
     /\ dev.size \div dev.e1 <= MBED_CONF_MCUBOOT_MAX_IMG_SECTORS) =>
        /\ io.returns /\ io.ret = 0
        /\ io.count = dev.size \div dev.e1
        /\ io.sectors = [k \in 1..(dev.size \div dev.e1) |->
                            [fs_off |-> (k - 1) * dev.e1, fs_size |-> dev.e1]]

\* Reached: erase unit 0x1000 and size 0x4000 give the four records
\* (0,0x1000), (0x1000,0x1000), (0x2000,0x1000), (0x3000,0x1000).
C7_Witness ==
    /\ Enumerated
    /\ dev.size = 16384 /\ dev.e1 = 4096 /\ dev.e2 = 4096
    /\ io.sectors = << [fs_off |-> 0, fs_size |-> 4096],
                       [fs_off |-> 4096, fs_size |-> 4096],
                       [fs_off |-> 8192, fs_size |-> 4096],
                       [fs_off |-> 12288, fs_size |-> 4096] >>

\* C13: flash_area_get_sectors returns for every bound device, also one that
\* reports an erase size of 0 (where the offset never advances and the
\* bounds check never fails): the loop body, which adds one to the count
\* each time it runs, runs at most MBED_CONF_MCUBOOT_MAX_IMG_SECTORS times.
C13_SectorLoopTerminates ==
    Enumerated =>
        /\ io.returns /\ io.ret = 0
        /\ io.count <= MBED_CONF_MCUBOOT_MAX_IMG_SECTORS
        /\ get_erase_size(dev, 0) = 0 /\ is_valid_read(dev, 0, dev.read_size) =>
              io.count = MBED_CONF_MCUBOOT_MAX_IMG_SECTORS

\* Reached: a device reporting erase size 0 at offset 0 was enumerated; the
\* call returned with the maximum of records, every one at offset 0.
C13_Witness ==
    /\ Enumerated /\ io.returns
    /\ get_erase_size(dev, 0) = 0
    /\ io.count = MBED_CONF_MCUBOOT_MAX_IMG_SECTORS
    /\ \A k \in 1..io.count : io.sectors[k] = [fs_off |-> 0, fs_size |-> 0]

\* The offset at which the device's k-th erase unit starts, k = 0, 1, ...
RECURSIVE UnitStart(_, _)
UnitStart(d, k) ==
    IF k = 0 THEN 0
    ELSE UnitStart(d, k - 1) + get_erase_size(d, UnitStart(d, k - 1))

\* The device holds at least n whole erase units of positive size.
HasUnits(d, n) ==
    \A k \in 0..(n - 1) :
        /\ get_erase_size(d, UnitStart(d, k)) > 0
        /\ UnitStart(d, k) + get_erase_size(d, UnitStart(d, k)) <= d.size

\* C14: a device with more erase units than the sector maximum M is
\* enumerated with success and exactly M records, its first M units in
\* order; index M-1 is the last one written.
C14_TruncatedToMaximum ==
    (Enumerated /\ HasUnits(dev, MBED_CONF_MCUBOOT_MAX_IMG_SECTORS + 1)) =>
        /\ io.returns /\ io.ret = 0
        /\ io.count = MBED_CONF_MCUBOOT_MAX_IMG_SECTORS
        /\ DOMAIN io.sectors = 1..MBED_CONF_MCUBOOT_MAX_IMG_SECTORS
        /\ \A k \in 1..MBED_CONF_MCUBOOT_MAX_IMG_SECTORS :
              io.sectors[k] =
                  [fs_off |-> UnitStart(dev, k - 1),
                   fs_size |-> get_erase_size(dev, UnitStart(dev, k - 1))]

\* Reached: a device of more units than the maximum, of two unit sizes, was
\* enumerated and the last record ends before the device does.
C14_Witness ==
    /\ Enumerated /\ HasUnits(dev, MBED_CONF_MCUBOOT_MAX_IMG_SECTORS + 1)
    /\ io.count = MBED_CONF_MCUBOOT_MAX_IMG_SECTORS
    /\ io.sectors[io.count].fs_size > io.sectors[1].fs_size
    /\ io.sectors[io.count].fs_off + io.sectors[io.count].fs_size < dev.size

\* The calls that work on an open slot's device.
DeviceOps == {"read", "write", "erase", "align", "erased_val",
              "read_is_empty", "get_sectors"}

\* C20: flash_area_read, _write, _erase, _align, _erased_val,
\* _read_is_empty and _get_sectors, failing or not, change no open counter,
\* no descriptor and no device's initialization state; and a
\* flash_area_get_sectors call right after another on the same device gives
\* the same count and records.
C20_DeviceCallsKeepLifecycle ==
    [][io'.op \in DeviceOps =>
          /\ open_count' = open_count
          /\ flash_areas' = flash_areas
          /\ bd_initialized' = bd_initialized
          /\ (io'.op = "get_sectors" /\ io'.prev # <<>>) =>
                (io'.sectors = io'.prev[1] /\ io'.count = Len(io'.prev[1]))]_vars

\* Reached: a second flash_area_get_sectors in a row returned two records
\* on a slot that is open once with its device initialized.
C20_Witness ==
    /\ io.op = "get_sectors" /\ io.prev # <<>> /\ io.count = 2
    /\ open_count[dev.id] = 1 /\ bd_initialized[dev.id]
    /\ flash_areas[dev.id].fa_id = dev.id

\* C9: flash_area_get_sectors with an fa_id that names no slot fails with
\* the InvalidSlot status (-1) and emits no sector record.
C9_InvalidSectorsRejected ==
    (io.op = "get_sectors" /\ io.id \notin SlotIds) =>
        (io.returns /\ io.ret = -1 /\ io.sectors = <<>>)

----------------------------------------------------------------------------
\* C1: N opens of a slot from a counter of zero, then N closes, call the
\* device's init() exactly once, on the first open, and its deinit() exactly
\* once, on the N-th close and on no earlier one, and leave the counter at
\* zero, for every N >= 1.
C1_NestedOpenClose ==
    /\ scen.opens >= 1 => scen.inits = 1
    /\ ~scen.earlyDeinit
    /\ scen.closes < scen.opens => scen.deinits = 0
    /\ (scen.opens >= 1 /\ scen.closes = scen.opens) =>
          (scen.deinits = 1 /\ open_count[scen.slot] = 0)

\* C2: in every state the calls reach, each slot's device is initialized
\* exactly when the slot's open counter is above zero.
C2_InitializedIffCounted ==
    \A i \in SlotIds : bd_initialized[i] <=> open_count[i] > 0

\* C3: flash_area_open with an id that names no slot returns the InvalidSlot
\* status (-1) and leaves every slot's counter as it was.
C3_InvalidOpenRejected ==
    [][\A id \in InvalidIds :
          flash_area_open_invalid(id) =>
              (last'.ret = -1 /\ open_count' = open_count)]_vars

\* C8: after a successful open(SCRATCH) the scratch descriptor starts where the primary
\* region ends and has the configured scratch size, in both builds, so the
\* two ranges do not overlap.
C8_ScratchDescriptor ==
    (last.op = "open" /\ last.id = SCRATCH_ID /\ last.ret = 0) =>
        LET fa == flash_areas[SCRATCH_ID]
            pEnd == PRIMARY_SLOT_START_ADDR + PRIMARY_SLOT_SIZE
        IN  /\ fa.fa_off = pEnd
            /\ fa.fa_size = cfg.SCRATCH_SIZE
            /\ \A a \in {fa.fa_off, fa.fa_off + fa.fa_size - 1} :
                  ~(PRIMARY_SLOT_START_ADDR <= a /\ a < pEnd)

\* C10: an open of a slot whose device cannot initialize now (its init()
\* would return e # 0) reports e, on every such call.
C10_InitFailureReported ==
    [][\A id \in SlotIds, e \in InitCodes \ {0} :
          (~bd_initialized[id] /\ flash_area_open(id, e)) => last'.ret = e]_vars

\* C15: after a successful open of a slot that filled the descriptor, its
\* fa_off is the slot's address by the addressing rule and its fa_size is
\* the size the bound device reports once initialized.
C15_DescriptorFilledOnOpen ==
    \A id \in SlotIds :
        (last.op = "open" /\ last.id = id /\ last.ret = 0
            /\ Called(last, "init")) =>
            /\ flash_areas[id].fa_off = AreaOffset(id)
            /\ flash_areas[id].fa_size = BdConfiguredSize(id)

\* C16: every initialize_flash_areas call, whatever each device's init()
\* returns, calls init() on the primary, the secondary and the scratch
\* device, in this order, returns 0 and changes no open counter and no
\* descriptor; it deinitializes no device.
C16_InitializeAllDevices ==
    [][last'.op = "initialize_flash_areas" =>
          /\ last'.ret = 0
          /\ last'.calls = <<"init0", "init1", "init2">>
          /\ open_count' = open_count
          /\ flash_areas' = flash_areas
          /\ \A i \in SlotIds : bd_initialized[i] => bd_initialized'[i]]_vars

\* Reached: the call returned 0 after three init() calls of which the
\* primary device's failed; the secondary and the scratch device, called
\* after it, are initialized.
C16_Witness ==
    /\ last.op = "initialize_flash_areas" /\ last.ret = 0
    /\ last.calls = <<"init0", "init1", "init2">>
    /\ ~bd_initialized[PRIMARY_ID]
    /\ bd_initialized[SECONDARY_ID] /\ bd_initialized[SCRATCH_ID]

\* C17: an open of a valid slot that returns non-zero leaves the slot's
\* counter at the value it had before the call.
C17_FailedOpenKeepsCounter ==
    [][\A id \in SlotIds, o \in InitCodes :
          (flash_area_open(id, o) /\ last'.ret # 0) =>
              open_count'[id] = open_count[id]]_vars

\* C18: for any number of outstanding opens of a slot the counter equals
\* the opens minus the closes, so it is above zero while holders remain.
C18_CounterIsOpensMinusCloses ==
    open_count[scen.slot] = scen.opens - scen.closes

\* C19: an open or close of one slot leaves the counters, descriptors and
\* device initialization states of the other two slots as they were.
C19_OtherSlotsUntouched ==
    [][\A id \in SlotIds :
          (/\ last'.op \in {"open", "close"} /\ last'.id = id
           /\ \/ \E o \in InitCodes : flash_area_open(id, o)
              \/ flash_area_close(id)) =>
              \A j \in SlotIds \ {id} :
                  /\ open_count'[j] = open_count[j]
                  /\ flash_areas'[j] = flash_areas[j]
                  /\ bd_initialized'[j] = bd_initialized[j]]_vars

\* Reached: the last holder of the secondary slot closed it, deinitializing
\* its device, while the primary and scratch slots are held and
\* initialized.
C19_Witness ==
    /\ last.op = "close" /\ last.id = SECONDARY_ID /\ Called(last, "deinit")
    /\ open_count[SECONDARY_ID] = 0 /\ ~bd_initialized[SECONDARY_ID]
    /\ open_count[PRIMARY_ID] = 1 /\ bd_initialized[PRIMARY_ID]
    /\ open_count[SCRATCH_ID] = 1 /\ bd_initialized[SCRATCH_ID]

====
